---- MODULE Spec2Model ----
(***************************************************************************)
(* Glyph fetch / cache / compose / render pipeline of OledChineseDisplay   *)
(* (demo1/oled_display_size.py, with the scroll loop of oled_display.py).  *)
(*                                                                         *)
(* The program is single-threaded; the only place where it waits for the   *)
(* environment is urequests.get.  A step of the model is therefore either  *)
(* a call of a public operation, run up to its return or up to the first   *)
(* HTTP request it has to wait for, or the arrival of the HTTP reply, run   *)
(* up to the next request or the return, or the caller going on after the  *)
(* call has ended (the call's locals and its return value are gone then).  *)
(*                                                                         *)
(* Python values: None is the empty sequence <<>> and a value v is <<v>>   *)
(* wherever the code can hold either; a dict is a record, a missing key a  *)
(* missing field; a list is a sequence (index 0 of the code is index 1).   *)
(***************************************************************************)
EXTENDS Integers, Sequences, FiniteSets, TLC

VARIABLES
    scroll_mode,         \* self.scroll_mode
    width,               \* self.width
    height,              \* self.height
    default_font_size,   \* self.default_font_size
    chinese_font_cache,  \* self.chinese_font_cache: (char, font_size) -> data
    op,                  \* the public call in progress or last completed
    pc,                  \* "idle": no call; "http": blocked in urequests.get;
                         \* "done": the call has returned or raised
    outcome,             \* "none" (running / nothing called), "returned", "raised"
    ret,                 \* return value of the completed call: <<>> is None
    req,                 \* the request in flight: <<>> or <<[char, font_size]>>
    loc,                 \* locals of _fetch_font_bitmap
    disp,                \* locals of display: texts, index of the current text, font_size
    log,                 \* display: outcome of every text item processed so far
    messages,            \* first lines of the show_message calls of the last display
    variant,             \* whose _render_bitmap runs: "size" (demo1/oled_display_size.py)
                         \* or "plain" (oled_display.py)
    bitmap_data,         \* argument of the last _render_bitmap: <<>> or <<data>>
    frames,              \* frames shown by the last _render_bitmap: sets of drawn pixels
    offsets,             \* scroll offsets of those frames (empty in static mode)
    requests,            \* number of urequests.get calls issued so far
    lookups,             \* _fetch_single_char_bitmap calls completed in the last step
    served,              \* key -> data of the first successful lookup of that key
    failed,              \* keys of which some lookup has failed
    last_reply,          \* the HTTP reply consumed by the last step: <<>> or <<reply>>
    compose_start,       \* the running _fetch_font_bitmap call, when called on its own:
                         \* <<>> or <<[requests, cached]>>, the request counter and the
                         \* cached keys when the call began
    url_text,            \* argument of _urlencode_chinese: a sequence of code points
    encoded_result,      \* its return value: <<>> (not called) or <<sequence of ASCII codes>>
    server_args,         \* query of a GET /api/font at the font server
    server_reply         \* the server's reply to it: <<>> or <<[status, body]>>

vars == <<scroll_mode, width, height, default_font_size, chinese_font_cache, op, pc,
          outcome, ret, req, loc, disp, log, messages, variant, bitmap_data, frames,
          offsets, requests,
          lookups, served, failed, last_reply, compose_start,
          url_text, encoded_result, server_args, server_reply>>

\* The variables of the encoder and of the font server, idle in the display's steps.
other == <<url_text, encoded_result, server_args, server_reply>>

config == <<scroll_mode, width, height, default_font_size>>

----------------------------------------------------------------------------
(* Bounds of the model *)

MaxChars == 2       \* characters in the text, or in the texts, given to one call
MaxRequests == 2    \* HTTP requests in one run
MaxBitmapW == 3     \* widest bitmap handed to _render_bitmap on its own
MaxBitmapH == 2     \* tallest bitmap handed to _render_bitmap on its own

Chars == {"a", "b"}
FontSizes == {12, 24}
DisplayWidths == {2, 3, 4}
DisplayHeights == {1, 2, 3}
GlyphWidths == {1, 2}    \* widths of the glyphs the service sends
GlyphHeights == {1, 2}   \* heights of the glyphs the service sends

Max(a, b) == IF a > b THEN a ELSE b

RECURSIVE SeqsUpTo(_, _)
SeqsUpTo(S, n) ==
    IF n = 0 THEN {<<>>}
    ELSE LET shorter == SeqsUpTo(S, n - 1)
         IN  shorter \cup {Append(s, e) : s \in {t \in shorter : Len(t) = n - 1}, e \in S}

Texts == SeqsUpTo(Chars, MaxChars)

RECURSIVE TotalLen(_)
TotalLen(texts) == IF texts = <<>> THEN 0 ELSE Len(Head(texts)) + TotalLen(Tail(texts))

\* display is given a list of non-empty texts
TextLists ==
    {texts \in SeqsUpTo(Texts \ {<<>>}, MaxChars) : texts # <<>> /\ TotalLen(texts) <= MaxChars}
FontSizeArgs == {<<>>} \cup {<<f>> : f \in FontSizes}

----------------------------------------------------------------------------
(* The font service's replies, as urequests.get hands them to the client *)

\* A well-formed success body: bitmap of h rows of w entries, width, height.
Glyph(w, h) ==
    [bitmap |-> [y \in 1..h |-> [x \in 1..w |-> IF (x + y) % 2 = 0 THEN 1 ELSE 0]],
     width |-> w, height |-> h, success |-> TRUE]

GoodGlyphs == {Glyph(w, h) : w \in GlyphWidths, h \in GlyphHeights}

\* success=true bodies with a field missing or the dimensions inconsistent
NoWidth   == [bitmap |-> <<<<1>>>>, height |-> 1, success |-> TRUE]
ShortRow  == [bitmap |-> <<<<1>>>>, width |-> 2, height |-> 1, success |-> TRUE]
BadGlyphs == {NoWidth, ShortRow}

ErrorBody == [error |-> "err", success |-> FALSE]
NoSuccessBody == [error |-> "err"]

Json(d) == [json |-> TRUE, data |-> d]
NotJson == [json |-> FALSE]

Replies ==
    {[kind |-> "timeout"], [kind |-> "transport"]}
    \cup {[kind |-> "http", status |-> 200, body |-> Json(d)] :
             d \in GoodGlyphs \cup BadGlyphs \cup {ErrorBody, NoSuccessBody}}
    \cup {[kind |-> "http", status |-> 200, body |-> NotJson],
          [kind |-> "http", status |-> 500, body |-> Json(Glyph(1, 1))]}

\* The schema of a success body (spec 4.1): fields present and consistent.
WellFormed(d) ==
    /\ {"bitmap", "width", "height"} \subseteq DOMAIN d
    /\ d.height = Len(d.bitmap)
    /\ \A y \in 1..Len(d.bitmap) : Len(d.bitmap[y]) = d.width

----------------------------------------------------------------------------
(* _fetch_single_char_bitmap *)

CacheKey(char, font_size) == <<char, font_size>>

\* data.get('success', False)
GetSuccess(data) == IF "success" \in DOMAIN data THEN data.success ELSE FALSE

\* Lines 121-133 on the reply of urequests.get: <<data>> when the method returns
\* the parsed body, <<>> when it returns None.  A timeout or transport error is
\* an exception of urequests.get, a body that is not JSON an exception of
\* response.json(); both end in the except branch.
ReplyData(reply) ==
    IF reply.kind # "http" THEN <<>>
    ELSE IF reply.status # 200 THEN <<>>
    ELSE IF ~reply.body.json THEN <<>>
    ELSE IF GetSuccess(reply.body.data) THEN <<reply.body.data>>
    ELSE <<>>

\* The method without its line 126: nothing is ever stored.
CacheAfterReplyNoStore(cache, key, reply) == cache

\* The body stored before its success field is looked at.
CacheAfterReplyAnyBody(cache, key, reply) ==
    IF reply.kind = "http" /\ reply.status = 200 /\ reply.body.json
    THEN [k \in DOMAIN cache \cup {key} |->
             IF k = key THEN reply.body.data ELSE cache[k]]
    ELSE cache

\* A cache of one entry: storing a glyph drops the others.
CacheAfterReplyEvicting(cache, key, reply) ==
    IF ReplyData(reply) # <<>>
    THEN [k \in {key} |-> ReplyData(reply)[1]]
    ELSE cache

\* Line 126: the cache after the reply of the request for `key` was handled.
CacheAfterReply(cache, key, reply) ==
    IF ReplyData(reply) # <<>>
    THEN [k \in DOMAIN cache \cup {key} |->
             IF k = key THEN ReplyData(reply)[1] ELSE cache[k]]
    ELSE cache

\* The method without its lines 112-114: the cache is never consulted.
CacheHitNever(cache, key) == FALSE

\* Lines 112-114: the cache hit.
CacheHit(cache, key) == key \in DOMAIN cache

\* One completed call of the method, as the steps record it.
Lookup(key, result, net) == [key |-> key, result |-> result, net |-> net]

----------------------------------------------------------------------------
(* _fetch_font_bitmap *)

\* Line 138
ActualFontSize(font_size, default) == IF font_size # <<>> THEN font_size[1] ELSE default

\* Lines 140-149: the locals before the loop.
NewLocals(text, actual_font_size) ==
    [text |-> text, font_size |-> actual_font_size, i |-> 1,
     all_char_bitmaps |-> <<>>, total_width |-> 0, max_height |-> 0]

NoLocals == NewLocals(<<>>, 0)

\* Lines 155-158: the character's data appended and measured; KeyError when
\* width or height is missing.
LoopBodyFound(L, d) ==
    IF "width" \notin DOMAIN d \/ "height" \notin DOMAIN d
    THEN [kind |-> "raise", L |-> L]
    ELSE [kind |-> "next",
          L |-> [L EXCEPT !.i = @ + 1,
                          !.all_char_bitmaps = Append(@, d),
                          !.total_width = @ + d.width,
                          !.max_height = Max(@, d.height)]]

\* The loop body skipping a character whose lookup failed instead of returning.
LoopBodySkipFailed(L, char_data) ==
    IF char_data # <<>> /\ GetSuccess(char_data[1])
    THEN LoopBodyFound(L, char_data[1])
    ELSE [kind |-> "next", L |-> [L EXCEPT !.i = @ + 1]]

\* Lines 154-162, the loop body once char_data is known.  "next": go on with the
\* following character; "return": return None; "raise": KeyError.
LoopBody(L, char_data) ==
    IF char_data # <<>> /\ GetSuccess(char_data[1])
    THEN LoopBodyFound(L, char_data[1])
    ELSE [kind |-> "return", L |-> L]

\* Lines 181-184 for one character: does bitmap[y][x] exist for every y, x read?
BlitRaises(d) ==
    \/ "bitmap" \notin DOMAIN d
    \/ \E y \in 1..d.height :
          \/ y > Len(d.bitmap)
          \/ \E x \in 1..d.width : x > Len(d.bitmap[y])

\* The copy without the vertical offset: glyphs aligned at the top.
BlitTopAligned(full_bitmap, d, current_x, max_height) ==
    [Y \in DOMAIN full_bitmap |->
       [X \in DOMAIN full_bitmap[Y] |->
          IF /\ Y \in 1..d.height
             /\ (X - current_x) \in 1..d.width
             /\ d.bitmap[Y][X - current_x] # 0
          THEN 1
          ELSE full_bitmap[Y][X]]]

\* Lines 178-184: one character copied into full_bitmap at column current_x (0-based).
Blit(full_bitmap, d, current_x, max_height) ==
    LET y_offset_for_char == max_height - d.height
    IN  [Y \in DOMAIN full_bitmap |->
           [X \in DOMAIN full_bitmap[Y] |->
              LET y == Y - y_offset_for_char
                  x == X - current_x
              IN  IF /\ y \in 1..d.height
                     /\ x \in 1..d.width
                     /\ d.bitmap[y][x] # 0
                  THEN 1
                  ELSE full_bitmap[Y][X]]]

\* Lines 171-185: the characters from index k on, copied in order.
RECURSIVE BlitAll(_, _, _, _, _)
BlitAll(full_bitmap, bitmaps, k, current_x, max_height) ==
    IF k > Len(bitmaps) THEN full_bitmap
    ELSE BlitAll(Blit(full_bitmap, bitmaps[k], current_x, max_height),
                 bitmaps, k + 1, current_x + bitmaps[k].width, max_height)

\* The buffer allocated one column short.
EmptyBitmapNarrow(total_width, max_height) ==
    [y \in 1..max_height |-> [x \in 1..(total_width - 1) |-> 0]]

\* Line 169
EmptyBitmap(total_width, max_height) ==
    [y \in 1..max_height |-> [x \in 1..total_width |-> 0]]

\* The method without its lines 164-166: a text without characters gives a
\* bitmap of no rows.
StitchZeroSize(L) ==
    IF \E k \in 1..Len(L.all_char_bitmaps) : BlitRaises(L.all_char_bitmaps[k])
    THEN [kind |-> "raise", value |-> <<>>]
    ELSE [kind |-> "return",
          value |-> <<[bitmap |-> BlitAll(EmptyBitmap(L.total_width, L.max_height),
                                          L.all_char_bitmaps, 1, 0, L.max_height),
                       width |-> L.total_width,
                       height |-> L.max_height,
                       success |-> TRUE]>>]

\* Lines 164-191: after the loop.
Stitch(L) ==
    IF L.all_char_bitmaps = <<>>
    THEN [kind |-> "return", value |-> <<>>]
    ELSE IF \E k \in 1..Len(L.all_char_bitmaps) : BlitRaises(L.all_char_bitmaps[k])
    THEN [kind |-> "raise", value |-> <<>>]
    ELSE [kind |-> "return",
          value |-> <<[bitmap |-> BlitAll(EmptyBitmap(L.total_width, L.max_height),
                                          L.all_char_bitmaps, 1, 0, L.max_height),
                       width |-> L.total_width,
                       height |-> L.max_height,
                       success |-> TRUE]>>]

\* Lines 152-191 from the character at L.i on, every lookup a cache hit until
\* the first miss.  kind "block": the lookup of text[L.i] needs the network;
\* "return" with value (<<>> is None); "raise".  looks: the lookups completed.
RECURSIVE ComposeRun(_, _, _)
ComposeRun(L, cache, looks) ==
    IF L.i > Len(L.text)
    THEN LET s == Stitch(L)
         IN  [kind |-> s.kind, value |-> s.value, L |-> L, looks |-> looks]
    ELSE LET key == CacheKey(L.text[L.i], L.font_size)
         IN  IF CacheHit(cache, key)
             THEN LET b == LoopBody(L, <<cache[key]>>)
                      ls == Append(looks, Lookup(key, <<cache[key]>>, FALSE))
                  IN  IF b.kind = "next" THEN ComposeRun(b.L, cache, ls)
                      ELSE [kind |-> b.kind, value |-> <<>>, L |-> b.L, looks |-> ls]
             ELSE [kind |-> "block", value |-> <<>>, L |-> L, looks |-> looks]

\* The loop resumed when the reply of the request for text[L.i] has arrived.
ComposeResume(L, cache, reply) ==
    LET key == CacheKey(L.text[L.i], L.font_size)
        b == LoopBody(L, ReplyData(reply))
        ls == <<Lookup(key, ReplyData(reply), TRUE)>>
    IN  IF b.kind = "next"
        THEN ComposeRun(b.L, CacheAfterReply(cache, key, reply), ls)
        ELSE [kind |-> b.kind, value |-> <<>>, L |-> b.L, looks |-> ls]


----------------------------------------------------------------------------
(* _render_bitmap *)

\* Python's range(start, stop, step) for step > 0, as the sequence it yields.
RECURSIVE Range(_, _, _)
Range(start, stop, step) ==
    IF start >= stop THEN <<>> ELSE <<start>> \o Range(start + step, stop, step)

\* demo1/oled_display_size.py line 204
scroll_step == 2

\* demo1/oled_display_size.py lines 203-206: range(0, total_scroll_width + scroll_step, scroll_step)
ScrollOffsetsSize(W, w) == Range(0, (W + w) + scroll_step, scroll_step)

\* oled_display.py lines 139-140: range(total_scroll_width)
ScrollOffsetsPlain(W, w) == Range(0, W + w, 1)

ScrollOffsets(v, W, w) == IF v = "size" THEN ScrollOffsetsSize(W, w) ELSE ScrollOffsetsPlain(W, w)

\* Line 199: y_offset = (self.height - height) // 2
YOffset(H, h) == (H - h) \div 2

\* The bounds test with its upper bound off by one.
InWidthInclusive(px, W) == 0 <= px /\ px <= W

\* Line 213: if 0 <= px < self.width
InWidth(px, W) == 0 <= px /\ px < W

\* Lines 207-215: the oled.pixel(px, py, 1) calls of the frame at `offset`
\* (coordinates as passed to the driver; x, y are the code's 0-based indices).
ScrollFrame(data, offset, W, H) ==
    {<<W - offset + x, YOffset(H, data.height) + y>> :
        <<x, y>> \in {p \in (0..(data.width - 1)) \X (0..(data.height - 1)) :
                         /\ data.bitmap[p[2] + 1][p[1] + 1] # 0
                         /\ InWidth(W - offset + p[1], W)}}

\* Lines 219-225: the oled.pixel calls of the static, centred frame.
StaticFrame(data, W, H) ==
    {<<((W - data.width) \div 2) + x, YOffset(H, data.height) + y>> :
        <<x, y>> \in {p \in (0..(data.width - 1)) \X (0..(data.height - 1)) :
                         data.bitmap[p[2] + 1][p[1] + 1] # 0}}

\* _render_bitmap: the frames shown, in order, and their scroll offsets.
RenderBitmap(v, data, scroll, W, H) ==
    IF scroll
    THEN LET offs == ScrollOffsets(v, W, data.width)
         IN  [frames |-> [k \in 1..Len(offs) |-> ScrollFrame(data, offs[k], W, H)],
              offsets |-> offs]
    ELSE [frames |-> <<StaticFrame(data, W, H)>>, offsets |-> <<>>]

----------------------------------------------------------------------------
(* display *)

NoDisp == [texts |-> <<>>, ti |-> 1, font_size |-> <<>>]

\* What a call has done when it returns, raises or blocks on a request.
Result(kind, value, L, D, lg, msgs, bd, fr, offs, looks) ==
    [kind |-> kind, value |-> value, L |-> L, D |-> D, log |-> lg, messages |-> msgs,
     bitmap_data |-> bd, frames |-> fr, offsets |-> offs, looks |-> looks]

\* Lines 242-257 from the text at D.ti on; c is the outcome of _fetch_font_bitmap
\* for that text when it is known already (after a reply), <<>> otherwise.
\* cfg = <<scroll_mode, width, height, default_font_size>>.
RECURSIVE DisplayRun(_, _, _, _, _, _, _, _, _)
DisplayRun(D, known, cache, cfg, lg, msgs, bd, fr, offs) ==
    IF D.ti > Len(D.texts)
    THEN Result("return", <<>>, NoLocals, D, lg, msgs, bd, fr, offs,
                IF known # <<>> THEN known[1].looks ELSE <<>>)
    ELSE LET c == IF known # <<>> THEN known[1]
                  ELSE ComposeRun(NewLocals(D.texts[D.ti],
                                            ActualFontSize(D.font_size, cfg[4])),
                                  cache, <<>>)
             \* line 245: show_message("Fetching Font...") precedes the fetch
             ms == IF known # <<>> THEN msgs ELSE Append(msgs, "Fetching Font...")
         IN  IF c.kind = "block"
             THEN Result("block", <<>>, c.L, D, lg, ms, bd, fr, offs, c.looks)
             ELSE IF c.kind = "raise"
             THEN Result("raise", <<>>, NoLocals, D, lg, ms, bd, fr, offs, c.looks)
             ELSE LET next == [D EXCEPT !.ti = @ + 1]
                      r == RenderBitmap("size", c.value[1], cfg[1], cfg[2], cfg[3])
                      rest ==
                        IF c.value # <<>>
                        THEN DisplayRun(next, <<>>, cache, cfg,
                                        Append(lg, [text |-> D.texts[D.ti], result |-> "Rendered"]),
                                        ms, c.value, r.frames, r.offsets)
                        ELSE DisplayRun(next, <<>>, cache, cfg,
                                        Append(lg, [text |-> D.texts[D.ti], result |-> "Failed"]),
                                        Append(ms, "Font Error!"), bd, fr, offs)
                  IN  [rest EXCEPT !.looks = c.looks \o @]


----------------------------------------------------------------------------
(* Bookkeeping of the lookups, kept beside the program's state *)

RECURSIVE UpdateServed(_, _)
UpdateServed(sv, looks) ==
    IF looks = <<>> THEN sv
    ELSE LET l == Head(looks)
             sv2 == IF l.result # <<>> /\ l.key \notin DOMAIN sv
                    THEN [k \in DOMAIN sv \cup {l.key} |->
                             IF k = l.key THEN l.result[1] ELSE sv[k]]
                    ELSE sv
         IN  UpdateServed(sv2, Tail(looks))

RECURSIVE UpdateFailed(_, _)
UpdateFailed(fl, looks) ==
    IF looks = <<>> THEN fl
    ELSE LET l == Head(looks)
         IN  UpdateFailed(IF l.result = <<>> THEN fl \cup {l.key} ELSE fl, Tail(looks))

EmptyCache == [k \in {} |-> Glyph(1, 1)]

----------------------------------------------------------------------------
(* The state after construction (__init__, lines 18-46) *)

InitCommon ==
    /\ chinese_font_cache = EmptyCache
    /\ op = "none"
    /\ pc = "idle"
    /\ outcome = "none"
    /\ ret = <<>>
    /\ req = <<>>
    /\ loc = NoLocals
    /\ disp = NoDisp
    /\ log = <<>>
    /\ messages = <<>>
    /\ frames = <<>>
    /\ offsets = <<>>
    /\ requests = 0
    /\ lookups = <<>>
    /\ served = EmptyCache
    /\ failed = {}
    /\ last_reply = <<>>
    /\ compose_start = <<>>

\* The encoder not called, no query at the font server.
InitOther ==
    /\ url_text = <<>>
    /\ encoded_result = <<>>
    /\ server_args = <<>>
    /\ server_reply = <<>>

\* A display in scroll mode (the constructor's default) with the default font
\* size 24; the display is scaled down from 128 x 64 to 4 x 3.
Init ==
    /\ scroll_mode = TRUE
    /\ width = 4
    /\ height = 3
    /\ default_font_size = 24
    /\ variant = "size"
    /\ bitmap_data = <<>>
    /\ InitCommon
    /\ InitOther

----------------------------------------------------------------------------
(* Steps *)

\* The state after a step that ran the call `opname` to the result R, with the
\* cache as the step left it, the reply it consumed (<<>> for none) and, when
\* it blocks, the key rq it requests.
Apply(opname, R, cache, reply, rq) ==
    /\ R.kind = "block" => requests < MaxRequests
    /\ op' = opname
    /\ pc' = IF R.kind = "block" THEN "http" ELSE "done"
    /\ outcome' = IF R.kind = "block" THEN "none"
                  ELSE IF R.kind = "raise" THEN "raised" ELSE "returned"
    /\ ret' = R.value
    /\ req' = IF R.kind = "block" THEN <<rq>> ELSE <<>>
    /\ requests' = IF R.kind = "block" THEN requests + 1 ELSE requests
    /\ loc' = R.L
    /\ disp' = R.D
    /\ log' = R.log
    /\ messages' = R.messages
    /\ bitmap_data' = R.bitmap_data
    /\ frames' = R.frames
    /\ offsets' = R.offsets
    /\ chinese_font_cache' = cache
    /\ lookups' = R.looks
    /\ served' = UpdateServed(served, R.looks)
    /\ failed' = UpdateFailed(failed, R.looks)
    /\ last_reply' = reply
    /\ compose_start' = IF opname # "fetch_font" THEN <<>>
                        ELSE IF pc = "idle"
                        THEN <<[requests |-> requests, cached |-> DOMAIN chinese_font_cache]>>
                        ELSE compose_start
    /\ UNCHANGED <<config, variant, other>>

\* The key _fetch_font_bitmap asks for when it blocks with locals L.
KeyAt(L) == CacheKey(L.text[L.i], L.font_size)

\* A _fetch_font_bitmap outcome c as the result of a call of its own.
ComposeResult(c) ==
    Result(c.kind, c.value, c.L, NoDisp, <<>>, <<>>, <<>>, <<>>, <<>>, c.looks)

\* _fetch_single_char_bitmap(char, font_size), lines 110-133, up to the request.
FetchSingleCall(cache, char, font_size) ==
    LET key == CacheKey(char, font_size)
    IN  IF CacheHit(cache, key)
        THEN Result("return", <<cache[key]>>, NoLocals, NoDisp, <<>>, <<>>, <<>>, <<>>, <<>>,
                    <<Lookup(key, <<cache[key]>>, FALSE)>>)
        ELSE Result("block", <<>>, NoLocals, NoDisp, <<>>, <<>>, <<>>, <<>>, <<>>, <<>>)

\* ... and from the reply on.
FetchSingleReply(key, reply) ==
    Result("return", ReplyData(reply), NoLocals, NoDisp, <<>>, <<>>, <<>>, <<>>, <<>>,
           <<Lookup(key, ReplyData(reply), TRUE)>>)

CallFetchSingle(char, font_size) ==
    /\ pc = "idle"
    /\ Apply("fetch_single", FetchSingleCall(chinese_font_cache, char, font_size),
             chinese_font_cache, <<>>, CacheKey(char, font_size))

CallFetchFont(text, font_size) ==
    /\ pc = "idle"
    /\ LET c == ComposeRun(NewLocals(text, ActualFontSize(font_size, default_font_size)),
                           chinese_font_cache, <<>>)
       IN  Apply("fetch_font", ComposeResult(c), chinese_font_cache, <<>>,
                 IF c.kind = "block" THEN KeyAt(c.L) ELSE <<>>)

CallDisplay(texts, font_size) ==
    /\ pc = "idle"
    /\ LET R == DisplayRun([texts |-> texts, ti |-> 1, font_size |-> font_size], <<>>,
                           chinese_font_cache, config, <<>>, <<>>, <<>>, <<>>, <<>>)
       IN  Apply("display", R, chinese_font_cache, <<>>,
                 IF R.kind = "block" THEN KeyAt(R.L) ELSE <<>>)

\* urequests.get returns or raises: the blocked call goes on.
HttpReply(reply) ==
    /\ pc = "http"
    /\ LET key == req[1]
           cache == CacheAfterReply(chinese_font_cache, key, reply)
       IN  IF op = "fetch_single"
           THEN Apply(op, FetchSingleReply(key, reply), cache, <<reply>>, <<>>)
           ELSE LET c == ComposeResume(loc, chinese_font_cache, reply)
                    R == IF op = "fetch_font" THEN ComposeResult(c)
                         ELSE DisplayRun(disp, <<c>>, cache, config,
                                         log, messages, bitmap_data, frames, offsets)
                IN  Apply(op, R, cache, <<reply>>,
                          IF R.kind = "block" THEN KeyAt(R.L) ELSE <<>>)

\* The caller goes on: the ended call's locals and return value are gone.
Return ==
    /\ pc = "done"
    /\ pc' = "idle"
    /\ op' = "none"
    /\ outcome' = "none"
    /\ ret' = <<>>
    /\ req' = <<>>
    /\ loc' = NoLocals
    /\ disp' = NoDisp
    /\ log' = <<>>
    /\ messages' = <<>>
    /\ bitmap_data' = <<>>
    /\ frames' = <<>>
    /\ offsets' = <<>>
    /\ lookups' = <<>>
    /\ last_reply' = <<>>
    /\ compose_start' = <<>>
    /\ UNCHANGED <<config, variant, chinese_font_cache, requests, served, failed, other>>

Next ==
    \/ \E char \in Chars, font_size \in FontSizes : CallFetchSingle(char, font_size)
    \/ \E text \in Texts, font_size \in FontSizeArgs : CallFetchFont(text, font_size)
    \/ \E texts \in TextLists, font_size \in FontSizeArgs : CallDisplay(texts, font_size)
    \/ \E reply \in Replies : HttpReply(reply)
    \/ Return

Spec == Init /\ [][Next]_vars


----------------------------------------------------------------------------
(* _render_bitmap on its own: every bitmap up to MaxBitmapW x MaxBitmapH, on  *)
(* every display of DisplayWidths x DisplayHeights, in both modes and with   *)
(* both scroll loops.                                                        *)

Bitmaps(w, h) == [1..h -> [1..w -> {0, 1}]]

RenderInputs ==
    UNION {{[bitmap |-> b, width |-> w, height |-> h, success |-> TRUE] : b \in Bitmaps(w, h)} :
              <<w, h>> \in (1..MaxBitmapW) \X (1..MaxBitmapH)}

InitRender ==
    /\ scroll_mode \in BOOLEAN
    /\ width \in DisplayWidths
    /\ height \in DisplayHeights
    /\ default_font_size = 24
    /\ variant \in {"size", "plain"}
    /\ bitmap_data \in {<<d>> : d \in RenderInputs}
    /\ InitCommon
    /\ InitOther

CallRender ==
    /\ pc = "idle"
    /\ op = "none"
    /\ LET r == RenderBitmap(variant, bitmap_data[1], scroll_mode, width, height)
       IN  /\ frames' = r.frames
           /\ offsets' = r.offsets
    /\ op' = "render"
    /\ pc' = "done"
    /\ outcome' = "returned"
    /\ UNCHANGED <<config, variant, bitmap_data, chinese_font_cache, ret, req, loc, disp,
                   log, messages, requests, lookups, served, failed, last_reply,
                   compose_start, other>>

NextRender == CallRender

SpecRender == InitRender /\ [][NextRender]_vars


----------------------------------------------------------------------------
(* Claims about _render_bitmap, checked under SpecRender *)

Rendered == op = "render" /\ outcome = "returned"

SetPixels(d) ==
    {p \in (0..(d.width - 1)) \X (0..(d.height - 1)) : d.bitmap[p[2] + 1][p[1] + 1] = 1}

\* C8 (as stated): in scrolling mode the frame offsets are 0, step, 2*step, ...,
\* they reach totalScrollWidth = displayWidth + bitmapWidth and do not pass it,
\* and nothing of the bitmap is drawn in the last frame; step is 2 in
\* demo1/oled_display_size.py and 1 in oled_display.py.
C8_ScrollEndsFullyExited ==
    (Rendered /\ scroll_mode) =>
        LET step == IF variant = "size" THEN 2 ELSE 1
            total == width + bitmap_data[1].width
            n == Len(offsets)
        IN  /\ n = Len(frames)
            /\ n >= 1
            /\ \A k \in 1..n : offsets[k] = (k - 1) * step
            /\ offsets[n] <= total
            /\ offsets[n] + step > total
            /\ frames[n] = {}

\* C9: in every scroll frame a set pixel at local column x is drawn at screen
\* column displayWidth - offset + x when that lies in [0, displayWidth) and is
\* not drawn otherwise, and nothing else is drawn.
C9_ScrollPixelPlacement ==
    (Rendered /\ scroll_mode) =>
        \A k \in 1..Len(frames) :
            LET d == bitmap_data[1]
                yo == (height - d.height) \div 2
                at(p) == <<width - offsets[k] + p[1], yo + p[2]>>
            IN  /\ \A p \in (0..(d.width - 1)) \X (0..(d.height - 1)) :
                      at(p) \in frames[k] <=>
                          /\ d.bitmap[p[2] + 1][p[1] + 1] = 1
                          /\ 0 <= at(p)[1]
                          /\ at(p)[1] < width
                /\ \A q \in frames[k] :
                      \E p \in (0..(d.width - 1)) \X (0..(d.height - 1)) : q = at(p)

\* C9 witness: a scroll frame in which one set pixel is drawn and another is
\* skipped because its screen column is outside the display.
C9_Witness ==
    /\ Rendered
    /\ scroll_mode
    /\ \E k \in 1..Len(frames) :
          /\ frames[k] # {}
          /\ Cardinality(frames[k]) < Cardinality(SetPixels(bitmap_data[1]))


----------------------------------------------------------------------------
(* Claims about the cache, checked under Spec *)

\* The lookups a step completed before its k-th one, added to the bookkeeping.
ServedBefore(k) == UpdateServed(served, SubSeq(lookups', 1, k - 1))

\* A reply the service means as a success: status 200, a JSON body, success true.
SuccessReply(reply) ==
    /\ reply.kind = "http"
    /\ reply.status = 200
    /\ reply.body.json
    /\ "success" \in DOMAIN reply.body.data
    /\ reply.body.data.success = TRUE

\* C1: once a lookup of a key has succeeded, every later lookup of that key,
\* whatever was called in between, returns the very same data and issues no
\* network request.
C1_CacheHitIdempotent ==
    [][\A k \in 1..Len(lookups') :
          lookups'[k].key \in DOMAIN ServedBefore(k) =>
              /\ lookups'[k].result = <<ServedBefore(k)[lookups'[k].key]>>
              /\ ~lookups'[k].net
              /\ (Len(lookups') = 1 /\ pc' = "done") => requests' = requests]_vars

\* C1 witness: a direct call answered from the cache, after a second request
\* (for another key) was made in between.
C1_Witness ==
    /\ op = "fetch_single"
    /\ outcome = "returned"
    /\ Len(lookups) = 1
    /\ ~lookups[1].net
    /\ lookups[1].key \in DOMAIN served
    /\ ret = <<served[lookups[1].key]>>
    /\ requests = 2
    /\ Cardinality(DOMAIN chinese_font_cache) = 2

\* C2: a failed lookup leaves the cache as it was; a later lookup of the same
\* key goes to the network again, and returns the glyph when that request
\* succeeds.
C2_FailureNotCached ==
    [][/\ (\E k \in 1..Len(lookups') : lookups'[k].result = <<>>) =>
              chinese_font_cache' = chinese_font_cache
       /\ \A k \in 1..Len(lookups') :
              LET l == lookups'[k]
              IN  (l.key \in failed /\ l.key \notin DOMAIN ServedBefore(k)) =>
                      /\ l.net
                      /\ k = 1
                      /\ pc = "http"
                      /\ requests >= 2
                      /\ SuccessReply(last_reply'[1]) =>
                             /\ l.result = <<last_reply'[1].body.data>>
                             /\ op' = "fetch_single" => ret' = l.result]_vars

\* C2 witness: a key whose lookup failed is looked up again, the request
\* succeeds and the glyph is returned.
C2_Witness ==
    /\ op = "fetch_single"
    /\ outcome = "returned"
    /\ Len(lookups) = 1
    /\ lookups[1].net
    /\ lookups[1].key \in failed
    /\ ret # <<>>
    /\ ret = <<chinese_font_cache[lookups[1].key]>>

\* C4 (as stated): a reply that is not a well-formed success (any failure, or
\* success=true with bitmap/width/height missing or inconsistent) is never
\* returned as a glyph and never stored in the cache.
C4_OnlyWellFormedGlyphs ==
    /\ \A key \in DOMAIN chinese_font_cache : WellFormed(chinese_font_cache[key])
    /\ \A k \in 1..Len(lookups) :
          lookups[k].result # <<>> => WellFormed(lookups[k].result[1])
    /\ \A k \in 1..Len(lookups) :
          (lookups[k].net /\ ~SuccessReply(last_reply[1])) => lookups[k].result = <<>>

\* C10: the cache only grows: no step removes an entry or changes its data.
C10_CacheMonotone ==
    [][\A key \in DOMAIN chinese_font_cache :
          /\ key \in DOMAIN chinese_font_cache'
          /\ chinese_font_cache'[key] = chinese_font_cache[key]]_vars

\* C10 witness: display has returned with two entries in the cache, one of them
\* older than the call.
C10_Witness ==
    /\ op = "display"
    /\ outcome = "returned"
    /\ Cardinality(DOMAIN chinese_font_cache) = 2
    /\ \E k \in 1..Len(lookups) : ~lookups[k].net


----------------------------------------------------------------------------
(* Claims about _fetch_font_bitmap, checked under Spec *)

\* _fetch_font_bitmap has returned a bitmap.
Composed == op = "fetch_font" /\ outcome = "returned" /\ ret # <<>>

\* The glyph of the i-th character of the composed text, as the cache holds it.
GlyphOf(i) == chinese_font_cache[CacheKey(loc.text[i], loc.font_size)]

RECURSIVE SumWidths(_)
SumWidths(i) == IF i = 0 THEN 0 ELSE SumWidths(i - 1) + GlyphOf(i).width

TallestGlyph ==
    CHOOSE h \in {GlyphOf(i).height : i \in 1..Len(loc.text)} :
        \A i \in 1..Len(loc.text) : GlyphOf(i).height <= h

\* C3: when the lookup of any character fails, _fetch_font_bitmap returns None
\* and no bitmap, wherever the character stands and however many lookups
\* succeeded before it.
C3_FailFast ==
    (op = "fetch_font" /\ pc = "done" /\ \E k \in 1..Len(lookups) : lookups[k].result = <<>>)
        => (outcome = "returned" /\ ret = <<>>)

\* C3 witness: the second character's lookup failed after the first one's
\* succeeded, and None was returned.
C3_Witness ==
    /\ op = "fetch_font"
    /\ outcome = "returned"
    /\ ret = <<>>
    /\ loc.i = 2
    /\ Len(loc.all_char_bitmaps) = 1
    /\ lookups # <<>>
    /\ lookups[Len(lookups)].result = <<>>

\* C6: a composed bitmap is as high as its highest glyph and as wide as its
\* glyphs together, and its grid has height rows of width pixels.
C6_CompositeDimensions ==
    Composed =>
        /\ ret[1].height = TallestGlyph
        /\ ret[1].width = SumWidths(Len(loc.text))
        /\ Len(ret[1].bitmap) = ret[1].height
        /\ \A y \in 1..Len(ret[1].bitmap) : Len(ret[1].bitmap[y]) = ret[1].width

\* C6 witness: two glyphs composed, the first the higher one.
C6_Witness ==
    /\ Composed
    /\ Len(loc.text) = 2
    /\ GlyphOf(1).height > GlyphOf(2).height
    /\ GlyphOf(1).width # GlyphOf(2).width
    /\ ret[1].width = 3

\* C7: glyph i's pixel (x, y) is set exactly when the composite's pixel at
\* (cursor_i + x, (maxHeight - height_i) + y) is, cursor_i being the sum of the
\* widths before glyph i; every other pixel of the composite is unset.
C7_BottomAligned ==
    Composed =>
        \A Y \in 0..(TallestGlyph - 1), X \in 0..(SumWidths(Len(loc.text)) - 1) :
            /\ ret[1].bitmap[Y + 1][X + 1] \in {0, 1}
            /\ ret[1].bitmap[Y + 1][X + 1] = 1 <=>
                  \E i \in 1..Len(loc.text) :
                      \E x \in 0..(GlyphOf(i).width - 1), y \in 0..(GlyphOf(i).height - 1) :
                          /\ X = SumWidths(i - 1) + x
                          /\ Y = (TallestGlyph - GlyphOf(i).height) + y
                          /\ GlyphOf(i).bitmap[y + 1][x + 1] # 0

\* C7 witness: a lower glyph before a higher one, its set pixel moved down.
C7_Witness ==
    /\ Composed
    /\ Len(loc.text) = 2
    /\ GlyphOf(1).height < GlyphOf(2).height
    /\ GlyphOf(1).bitmap[1][1] = 1
    /\ ret[1].bitmap[1][1] = 0
    /\ ret[1].bitmap[1 + (GlyphOf(2).height - GlyphOf(1).height)][1] = 1

----------------------------------------------------------------------------
(* Claims about display, checked under Spec *)

\* C5 (as stated): display processes every text exactly once and in order, each
\* ending Rendered or Failed; a text whose fetch or composition fails in any
\* way, a malformed reply included, shows the placeholder and the next text is
\* processed.
C5_EveryItemProcessed ==
    /\ op = "display" =>
          /\ Len(log) <= Len(disp.texts)
          /\ \A i \in 1..Len(log) :
                /\ log[i].text = disp.texts[i]
                /\ log[i].result \in {"Rendered", "Failed"}
          /\ Cardinality({i \in 1..Len(messages) : messages[i] = "Font Error!"})
                = Cardinality({i \in 1..Len(log) : log[i].result = "Failed"})
    /\ (op = "display" /\ pc = "done") =>
          /\ outcome = "returned"
          /\ Len(log) = Len(disp.texts)

----------------------------------------------------------------------------
(* The empty text *)

\* A call of _fetch_font_bitmap on its own, with a text of no characters.
EmptyTextCall == op = "fetch_font" /\ compose_start # <<>> /\ loc.text = <<>>

\* C11: _fetch_font_bitmap called with a text of zero characters returns None,
\* never a bitmap (of zero size or other), and issues no request: it never
\* waits for a reply and the request counter is what it was when the call began.
C11_EmptyTextIsError ==
    EmptyTextCall =>
        /\ pc = "done"
        /\ outcome = "returned"
        /\ ret = <<>>
        /\ req = <<>>
        /\ lookups = <<>>
        /\ requests = compose_start[1].requests

\* The empty text given to a display that has glyphs cached and requests left.
C11_Witness ==
    /\ EmptyTextCall
    /\ pc = "done"
    /\ chinese_font_cache # EmptyCache
    /\ requests < MaxRequests

----------------------------------------------------------------------------
(* _urlencode_chinese *)

MaxUrlLen == 2      \* characters in the text given to _urlencode_chinese

\* Code points of the characters tried: newline, space, % + - A ~, and a
\* character of two, of three and of four UTF-8 bytes (U+00E9, U+4E2D, U+1F600).
UrlChars == {10, 32, 37, 43, 45, 65, 126, 233, 20013, 128512}

UrlTexts == SeqsUpTo(UrlChars, MaxUrlLen)

\* Line 98: the code points of safe_chars, a-z A-Z 0-9 - _ . ~
safe_chars == (97..122) \cup (65..90) \cup (48..57) \cup {45, 95, 46, 126}

\* Line 103: char.encode('utf-8')
utf8_bytes(char) ==
    IF char < 128 THEN <<char>>
    ELSE IF char < 2048 THEN <<192 + (char \div 64), 128 + (char % 64)>>
    ELSE IF char < 65536
    THEN <<224 + (char \div 4096), 128 + ((char \div 64) % 64), 128 + (char % 64)>>
    ELSE <<240 + (char \div 262144), 128 + ((char \div 4096) % 64),
           128 + ((char \div 64) % 64), 128 + (char % 64)>>

\* The digit of value n in upper-case hexadecimal, as its ASCII code.
HexDigit(n) == IF n < 10 THEN 48 + n ELSE 55 + n

\* The byte written without the zero padding: f"%{byte:X}"
HexByteUnpadded(byte) ==
    IF byte < 16 THEN <<37, HexDigit(byte)>>
    ELSE <<37, HexDigit(byte \div 16), HexDigit(byte % 16)>>

\* Line 105: f"%{byte:02X}"
HexByte(byte) == <<37, HexDigit(byte \div 16), HexDigit(byte % 16)>>

\* Lines 104-105: the loop over the bytes of one character.
RECURSIVE EncodeBytes(_)
EncodeBytes(bytes) ==
    IF bytes = <<>> THEN <<>> ELSE HexByte(Head(bytes)) \o EncodeBytes(Tail(bytes))

\* Lines 99-107: the loop over the characters of the text.
RECURSIVE urlencode_chinese(_)
urlencode_chinese(text) ==
    IF text = <<>> THEN <<>>
    ELSE (IF Head(text) \in safe_chars THEN <<Head(text)>>
          ELSE EncodeBytes(utf8_bytes(Head(text))))
         \o urlencode_chinese(Tail(text))

\* The encoder is a static method: the display plays no part.
InitEncode ==
    /\ url_text \in UrlTexts
    /\ encoded_result = <<>>
    /\ server_args = <<>>
    /\ server_reply = <<>>
    /\ scroll_mode = TRUE
    /\ width = 4
    /\ height = 3
    /\ default_font_size = 24
    /\ variant = "size"
    /\ bitmap_data = <<>>
    /\ InitCommon

CallUrlencode ==
    /\ encoded_result = <<>>
    /\ encoded_result' = <<urlencode_chinese(url_text)>>
    /\ UNCHANGED <<config, variant, bitmap_data, chinese_font_cache, op, pc, outcome, ret,
                   req, loc, disp, log, messages, frames, offsets, requests, lookups,
                   served, failed, last_reply, compose_start, url_text, server_args,
                   server_reply>>

NextEncode == CallUrlencode

SpecEncode == InitEncode /\ [][NextEncode]_vars

\* The UTF-8 bytes of a text.
RECURSIVE Utf8OfText(_)
Utf8OfText(text) ==
    IF text = <<>> THEN <<>> ELSE utf8_bytes(Head(text)) \o Utf8OfText(Tail(text))

\* Value of the hexadecimal digit of ASCII code c (either case), -1 if it is none.
HexValue(c) ==
    IF c \in 48..57 THEN c - 48
    ELSE IF c \in 65..70 THEN c - 55
    ELSE IF c \in 97..102 THEN c - 87
    ELSE -1

\* Percent-decoding (RFC 3986): %XY is the byte 16 X + Y, any other character
\* the byte of its ASCII code.
RECURSIVE PercentDecode(_)
PercentDecode(s) ==
    IF s = <<>> THEN <<>>
    ELSE IF /\ Head(s) = 37
            /\ Len(s) >= 3
            /\ HexValue(s[2]) >= 0
            /\ HexValue(s[3]) >= 0
    THEN <<16 * HexValue(s[2]) + HexValue(s[3])>> \o PercentDecode(SubSeq(s, 4, Len(s)))
    ELSE <<Head(s)>> \o PercentDecode(Tail(s))

\* The unreserved characters of RFC 3986.
Unreserved(c) == c \in (65..90) \cup (97..122) \cup (48..57) \cup {45, 46, 95, 126}

UpperHex(c) == c \in (48..57) \cup (65..70)

\* Length of the encoded form: one for an unreserved character, three for
\* each UTF-8 byte of any other.
RECURSIVE EncodedLen(_)
EncodedLen(text) ==
    IF text = <<>> THEN 0
    ELSE (IF Unreserved(Head(text)) THEN 1 ELSE 3 * Len(utf8_bytes(Head(text))))
         + EncodedLen(Tail(text))

\* C12: percent-decoding the encoder's output gives the UTF-8 bytes of the
\* input; the output holds unreserved characters and %XX triples of upper-case
\* hexadecimal digits only, one character for each unreserved input character
\* and one triple for each UTF-8 byte of any other (space and % included).
C12_EncodeRoundTrip ==
    encoded_result # <<>> =>
        LET e == encoded_result[1]
        IN  /\ PercentDecode(e) = Utf8OfText(url_text)
            /\ Len(e) = EncodedLen(url_text)
            /\ \A i \in 1..Len(e) :
                   \/ Unreserved(e[i]) /\ (i > 1 => e[i - 1] # 37) /\ (i > 2 => e[i - 2] # 37)
                   \/ UpperHex(e[i]) /\ \E j \in {i - 1, i - 2} : j >= 1 /\ e[j] = 37
                   \/ e[i] = 37 /\ i + 2 <= Len(e) /\ UpperHex(e[i + 1]) /\ UpperHex(e[i + 2])

\* A text with a multi-byte character and one of "%", space or newline, encoded.
C12_Witness ==
    /\ encoded_result # <<>>
    /\ \E i \in 1..Len(url_text) : url_text[i] >= 2048
    /\ \E i \in 1..Len(url_text) : url_text[i] \in {10, 32, 37}

----------------------------------------------------------------------------
(* The font server: get_font_bitmap and text_to_bitmap (font_server_size.py) *)

MaxServerLen == 2   \* characters in the text of a query

\* Code points of the characters of a query's text: newline, space, "a".
ServerChars == {10, 32, 97}

\* str.strip() removes these (the ASCII white space).
Whitespace == {9, 10, 11, 12, 13, 32}

\* The font_size parameter: absent, not a number, or an integer.
FontSizeParams ==
    {<<>>, <<[numeric |-> FALSE, value |-> 0]>>}
        \cup {<<[numeric |-> TRUE, value |-> n]>> : n \in {0, 1, 2, 3, 24, 128, 129}}

\* The text parameter: absent or a string, the empty one included.
TextParams == {<<>>} \cup {<<t>> : t \in SeqsUpTo(ServerChars, MaxServerLen)}

\* What ImageDraw.textbbox can measure for a text that is not empty: no
\* width at all (a text of newlines only, a space at a tiny font size) or
\* some, and no height (nothing inked) or some (the line height of the
\* fallback bitmap font, the line spacing of a text of several lines).
BBoxWidths == {0, 1, 2}
BBoxHeights == {0, 1, 3}

\* Lines 65-70: the font size the server works with.
ParseFontSize(p) ==
    IF p = <<>> THEN 24
    ELSE IF ~p[1].numeric THEN 24
    ELSE IF 1 <= p[1].value /\ p[1].value <= 128 THEN p[1].value
    ELSE 24

\* Line 25: not text.strip()
IsBlank(text) == \A i \in 1..Len(text) : text[i] \in Whitespace

\* Lines 22-33: width and height from the measured box.
BitmapWidth(text, font_size, bbox_w) ==
    IF IsBlank(text) /\ bbox_w = 0
    THEN IF Len(text) > 0 THEN (font_size \div 3) * Len(text) ELSE 1
    ELSE bbox_w

BitmapHeight(text, font_size, bbox_h) ==
    IF IsBlank(text) /\ bbox_h = 0 THEN font_size ELSE bbox_h

\* Lines 10-59.  raises: an exception inside the try block (the font file
\* cannot be read, the image cannot be made).  A blank text inks no pixel.
text_to_bitmap(text, font_size, bbox_w, bbox_h, raises) ==
    IF raises THEN [error |-> "err", success |-> FALSE]
    ELSE LET w == BitmapWidth(text, font_size, bbox_w)
             h == BitmapHeight(text, font_size, bbox_h)
         IN  [bitmap |-> [y \in 1..h |-> [x \in 1..w |->
                              IF IsBlank(text) THEN 0 ELSE Glyph(w, h).bitmap[y][x]]],
              width |-> w,
              height |-> h,
              success |-> TRUE]

\* Lines 61-93.
get_font_bitmap(args, bbox_w, bbox_h, raises) ==
    IF args.text = <<>> \/ args.text[1] = <<>>
    THEN [status |-> 400, body |-> [error |-> "err", success |-> FALSE]]
    ELSE LET data == text_to_bitmap(args.text[1], ParseFontSize(args.font_size),
                                    bbox_w, bbox_h, raises)
         IN  IF data.success
             THEN [status |-> 200, body |-> data]
             ELSE [status |-> 500, body |-> data]

\* A query has arrived at the server; the display plays no part.
InitServer ==
    /\ server_args \in [text : TextParams, font_size : FontSizeParams]
    /\ server_reply = <<>>
    /\ url_text = <<>>
    /\ encoded_result = <<>>
    /\ scroll_mode = TRUE
    /\ width = 4
    /\ height = 3
    /\ default_font_size = 24
    /\ variant = "size"
    /\ bitmap_data = <<>>
    /\ InitCommon

ServeFont(bbox_w, bbox_h, raises) ==
    /\ server_reply = <<>>
    /\ server_reply' = <<get_font_bitmap(server_args, bbox_w, bbox_h, raises)>>
    /\ UNCHANGED <<config, variant, bitmap_data, chinese_font_cache, op, pc, outcome, ret,
                   req, loc, disp, log, messages, frames, offsets, requests, lookups,
                   served, failed, last_reply, compose_start, url_text, encoded_result,
                   server_args>>

NextServer ==
    \E bbox_w \in BBoxWidths, bbox_h \in BBoxHeights, raises \in BOOLEAN :
        ServeFont(bbox_w, bbox_h, raises)

SpecServer == InitServer /\ [][NextServer]_vars

\* A successful reply to a query whose text is white space only and whose
\* font size is in the accepted range.
BlankServed ==
    /\ server_reply # <<>>
    /\ server_reply[1].status = 200
    /\ server_args.text # <<>>
    /\ server_args.text[1] # <<>>
    /\ IsBlank(server_args.text[1])
    /\ server_args.font_size # <<>>
    /\ server_args.font_size[1].numeric
    /\ server_args.font_size[1].value \in 1..128

\* C13: the successful reply to a text of white space only, at a font size in
\* 1..128, has width > 0 and height equal to the font size.
C13_WhitespaceMinimumSize ==
    BlankServed =>
        /\ server_reply[1].body.width > 0
        /\ server_reply[1].body.height = server_args.font_size[1].value

----------------------------------------------------------------------------
(* Requests of one _fetch_font_bitmap call *)

\* A call of _fetch_font_bitmap on its own, running or ended.
ComposeCall == op = "fetch_font" /\ compose_start # <<>>

\* Requests issued since the call began.
Issued == requests - compose_start[1].requests

\* The keys of the first k characters of the text that were not cached when
\* the call began.
MissingUpTo(k) ==
    {CacheKey(loc.text[j], loc.font_size) : j \in 1..k} \ compose_start[1].cached

\* The last character whose lookup the call has begun.
Reached == IF loc.i > Len(loc.text) THEN Len(loc.text) ELSE loc.i

\* The call has ended at a lookup that failed: it returned None before the
\* last character was stitched.
FailedAt(k) ==
    /\ pc = "done"
    /\ outcome = "returned"
    /\ ret = <<>>
    /\ loc.i = k
    /\ k <= Len(loc.text)

\* C14: in one _fetch_font_bitmap call a request is issued for a character
\* occurrence exactly if its key is not in the cache when it is looked up: the
\* requests issued so far are as many as the distinct keys, not cached when the
\* call began, of the characters looked up so far; the key requested is not in
\* the cache; when every lookup has succeeded that is the number of distinct
\* characters of the text not cached beforehand, and when a lookup has failed
\* nothing was requested for the characters after it.
C14_OneRequestPerMiss ==
    ComposeCall =>
        /\ Issued = Cardinality(MissingUpTo(Reached))
        /\ pc = "http" =>
               /\ req = <<KeyAt(loc)>>
               /\ req[1] \notin DOMAIN chinese_font_cache
        /\ pc # "http" => req = <<>>
        /\ Composed => Issued = Cardinality(MissingUpTo(Len(loc.text)))
        /\ \A k \in 1..Len(loc.text) :
               FailedAt(k) =>
                   /\ Issued = Cardinality(MissingUpTo(k))
                   /\ lookups[Len(lookups)].net
                   /\ lookups[Len(lookups)].key = CacheKey(loc.text[k], loc.font_size)

\* A text of the same character twice, not cached before, composed with one
\* request: the second occurrence was a cache hit.
C14_Witness ==
    /\ ComposeCall
    /\ Composed
    /\ Len(loc.text) = 2
    /\ loc.text[1] = loc.text[2]
    /\ compose_start[1].cached = {}
    /\ Issued = 1

----------------------------------------------------------------------------
(* Pixels and the display buffer *)

\* C15: every pixel _render_bitmap draws, in static and in scroll mode, has
\* 0 <= x < self.width and 0 <= y < self.height.
C15_PixelsInsideDisplay ==
    Rendered =>
        \A k \in 1..Len(frames) : \A p \in frames[k] :
            /\ 0 <= p[1] /\ p[1] < width
            /\ 0 <= p[2] /\ p[2] < height

====
